---- MODULE Spec2Model ----
(***************************************************************************)
(* Model of the two scripts of the repository:                             *)
(*   gemini_chat.py  - interactive chat loop over generate_content         *)
(*   list_models.py  - prints the descriptors yielded by list_models       *)
(* Strings are sequences of one-character strings, so that lower(), the    *)
(* "Error: " prefix and the comparison with 'quit' are computed.           *)
(* The client library (genai) is the environment: each of its calls        *)
(* returns or raises, chosen nondeterministically.                         *)
(***************************************************************************)
EXTENDS Integers, Sequences, FiniteSets, TLC

\* ------------------------------------------------------------------ bounds
\* lines read from standard input in one run of the chat driver
MaxInputs == 3
\* descriptors the lazy list_models sequence yields in one run
MaxModels == 3

\* ----------------------------------------------------------------- strings
Quit == <<"q", "u", "i", "t">>

\* input lines typed by the user
Lines ==
    { Quit,
      <<"Q", "U", "I", "T">>,
      <<"Q", "u", "i", "t">>,
      <<" ", "q", "u", "i", "t", " ">>,
      <<"q", "u", "i", "t", " ">>,
      <<"H", "i">>,
      <<>> }

\* str.lower() on one character
LowerChar(c) ==
    CASE c = "Q" -> "q"
      [] c = "U" -> "u"
      [] c = "I" -> "i"
      [] c = "T" -> "t"
      [] c = "H" -> "h"
      [] OTHER -> c

\* str.lower()
lower(s) == [i \in 1..Len(s) |-> LowerChar(s[i])]

\* the mutant of IsQuit: the comparison without lower()
IsQuitCaseSensitive(line) == line = Quit

\* the mutant of IsQuit: the comparison after strip() and lower()
RECURSIVE lstrip(_)
lstrip(s) == IF s # <<>> /\ Head(s) = " " THEN lstrip(Tail(s)) ELSE s
RECURSIVE rstrip(_)
rstrip(s) ==
    IF s # <<>> /\ s[Len(s)] = " " THEN rstrip(SubSeq(s, 1, Len(s) - 1)) ELSE s
strip(s) == rstrip(lstrip(s))
IsQuitStripped(line) == lower(strip(line)) = Quit

\* user_input.lower() == 'quit'
IsQuit(line) == lower(line) = Quit

\* --------------------------------------------------------------- exceptions
NoException == [cls |-> "None", msg |-> <<>>, site |-> "none"]

\* the classes of the hierarchy that derive from Exception; KeyboardInterrupt
\* derives from BaseException only
ExceptionClasses == {"Exception", "ValueError", "EOFError", "GoogleAPIError"}

\* the mutant of ExceptMatches: a bare except / except BaseException
ExceptMatchesAll(cls) == TRUE
\* the mutant of ExceptMatches: no handler at all
ExceptMatchesNone(cls) == FALSE

\* except Exception as e
ExceptMatches(cls) == cls \in ExceptionClasses

\* the mutant of ErrorString: the message without the prefix
ErrorStringNoPrefix(exc) == exc.msg

\* f"Error: {str(e)}"
ErrorString(exc) == <<"E", "r", "r", "o", "r", ":", " ">> \o exc.msg

\* what the library can raise, by call site
ConstructErrors ==
    { [cls |-> "GoogleAPIError", msg |-> <<"n", "o">>, site |-> "GenerativeModel"] }
GenerateErrors ==
    { [cls |-> "GoogleAPIError", msg |-> <<"4", "2", "9">>, site |-> "generate_content"],
      [cls |-> "GoogleAPIError", msg |-> <<>>, site |-> "generate_content"] }
TextErrors ==
    { [cls |-> "ValueError", msg |-> <<"b", "l", "k">>, site |-> "text"] }
ListErrors ==
    { [cls |-> "GoogleAPIError", msg |-> <<"5", "0", "3">>, site |-> "list_models"] }
Interrupt(site) == [cls |-> "KeyboardInterrupt", msg |-> <<>>, site |-> site]

\* ----------------------------------------------------------------- requests
\* the mutant of GenerationConfig: another temperature
GenerationConfigHot ==
    [temperature |-> "1.0", top_p |-> "0.95", top_k |-> 40, max_output_tokens |-> 2048]

\* genai.types.GenerationConfig(...)
GenerationConfig ==
    [temperature |-> "0.7", top_p |-> "0.95", top_k |-> 40, max_output_tokens |-> 2048]

\* safety_settings=[...]
SafetySettings ==
    << [category |-> "HARM_CATEGORY_HARASSMENT", threshold |-> "BLOCK_MEDIUM_AND_ABOVE"],
       [category |-> "HARM_CATEGORY_HATE_SPEECH", threshold |-> "BLOCK_MEDIUM_AND_ABOVE"],
       [category |-> "HARM_CATEGORY_SEXUALLY_EXPLICIT", threshold |-> "BLOCK_MEDIUM_AND_ABOVE"],
       [category |-> "HARM_CATEGORY_DANGEROUS_CONTENT", threshold |-> "BLOCK_MEDIUM_AND_ABOVE"] >>

\* the response objects generate_content returns: a text, or a blocked
\* response whose .text raises
NoResponse == [blocked |-> FALSE, text |-> <<>>]
Responses ==
    { [blocked |-> FALSE, text |-> <<"o", "k">>],
      [blocked |-> FALSE, text |-> <<"H", "i">>],
      [blocked |-> TRUE, text |-> <<>>] }

\* model descriptors of the listing
Descriptors ==
    { [name |-> <<"m", "/", "b">>, display_name |-> <<"B">>],
      [name |-> <<"m", "/", "a">>, display_name |-> <<"A">>] }

\* os.getenv('GOOGLE_API_KEY'): None, or the string set in the environment
EnvValues ==
    { [isNone |-> TRUE, str |-> <<>>],
      [isNone |-> FALSE, str |-> <<>>],
      [isNone |-> FALSE, str |-> <<"k">>] }

\* ------------------------------------------------------------------- output
Printed(kind, text) == [kind |-> kind, text |-> text]
Separator == Printed("separator", <<>>)

VARIABLES
    script,            \* which of the two scripts runs
    GOOGLE_API_KEY,    \* the module-level value read from the environment
    configured,        \* genai.configure has been called
    pc,                \* the position of the script
    user_input,        \* main: the line read by input()
    response,          \* main: the string chat_with_gemini returned
    resp_obj,          \* chat_with_gemini: the object generate_content returned
    e,                 \* the exception raised inside the try block
    out,               \* standard output, in order
    requests,          \* the generate_content calls issued, in order, each with
                       \* the input line of its iteration
    uncaught,          \* the exception that ended the process, if any
    list_calls,        \* the list_models calls issued
    yielded,           \* the descriptors the lazy sequence has yielded
    nRead,             \* the lines input() has returned
    nInvoked,          \* the calls of chat_with_gemini
    nConstructRaised   \* the calls in which GenerativeModel(...) raised

vars ==
    << script, GOOGLE_API_KEY, configured, pc, user_input, response, resp_obj, e,
       out, requests, uncaught, list_calls, yielded, nRead, nInvoked,
       nConstructRaised >>

Init ==
    /\ script \in {"gemini_chat", "list_models"}
    /\ GOOGLE_API_KEY \in EnvValues
    /\ configured = FALSE
    /\ pc = "getenv"
    /\ user_input = <<>>
    /\ response = <<>>
    /\ resp_obj = NoResponse
    /\ e = NoException
    /\ out = <<>>
    /\ requests = <<>>
    /\ uncaught = NoException
    /\ list_calls = 0
    /\ yielded = <<>>
    /\ nRead = 0
    /\ nInvoked = 0
    /\ nConstructRaised = 0


\* ----------------------------------------------------- both scripts: startup
\* the mutant of KeyMissing: the check left out
KeyMissingNever(key) == FALSE

\* if not GOOGLE_API_KEY: None and the empty string are both falsy
KeyMissing(key) == key.isNone \/ key.str = <<>>

\* lines 5-7 of either script: read the key, raise ValueError when it is falsy
CheckKey ==
    /\ pc = "getenv"
    /\ IF KeyMissing(GOOGLE_API_KEY)
       THEN /\ pc' = "crashed"
            /\ uncaught' = [cls |-> "ValueError", msg |-> <<"s", "e", "t">>,
                            site |-> "startup"]
       ELSE /\ pc' = "configure"
            /\ UNCHANGED uncaught
    /\ UNCHANGED << script, GOOGLE_API_KEY, configured, user_input, response,
                    resp_obj, e, out, requests, list_calls, yielded, nRead,
                    nInvoked, nConstructRaised >>

\* line 10 of either script: genai.configure(api_key=GOOGLE_API_KEY)
Configure ==
    /\ pc = "configure"
    /\ configured' = TRUE
    /\ pc' = IF script = "gemini_chat" THEN "main" ELSE "header"
    /\ UNCHANGED << script, GOOGLE_API_KEY, user_input, response, resp_obj, e,
                    out, requests, uncaught, list_calls, yielded, nRead,
                    nInvoked, nConstructRaised >>

\* ------------------------------------------------------------ gemini_chat.py
\* the mutant of Request: the previous response is sent along with the prompt
RequestWithHistory(prompt) ==
    [contents |-> response \o prompt,
     model |-> "gemini-2.5-pro-preview-03-25",
     generation_config |-> GenerationConfig,
     safety_settings |-> SafetySettings]

\* the arguments of model.generate_content(prompt, generation_config=...,
\* safety_settings=...) on the model built in line 18
Request(prompt) ==
    [contents |-> prompt,
     model |-> "gemini-2.5-pro-preview-03-25",
     generation_config |-> GenerationConfig,
     safety_settings |-> SafetySettings]

\* the mutant of GeminiBlock: the separator left out
GeminiBlockNoSeparator(text) == << Printed("gemini", text) >>

\* print("\nGemini:", response); print("-" * 50)
GeminiBlock(text) == << Printed("gemini", text), Separator >>

\* main, lines 53-54: the banner
Welcome ==
    /\ pc = "main"
    /\ out' = out \o << Printed("welcome", <<>>), Separator >>
    /\ pc' = "input"
    /\ UNCHANGED << script, GOOGLE_API_KEY, configured, user_input, response,
                    resp_obj, e, requests, uncaught, list_calls, yielded, nRead,
                    nInvoked, nConstructRaised >>

\* main, line 57: input() returns a line
ReadInput ==
    /\ pc = "input"
    /\ nRead < MaxInputs
    /\ \E line \in Lines : user_input' = line
    /\ nRead' = nRead + 1
    /\ pc' = "test"
    /\ UNCHANGED << script, GOOGLE_API_KEY, configured, response, resp_obj, e,
                    out, requests, uncaught, list_calls, yielded, nInvoked,
                    nConstructRaised >>

\* main, line 57: input() raises; nothing in main catches it.  EOFError at the
\* end of standard input, KeyboardInterrupt on an interrupt
InputRaises ==
    /\ pc = "input"
    /\ \E exc \in { [cls |-> "EOFError", msg |-> <<>>, site |-> "input"],
                    Interrupt("input") } :
          uncaught' = exc
    /\ pc' = "crashed"
    /\ UNCHANGED << script, GOOGLE_API_KEY, configured, user_input, response,
                    resp_obj, e, out, requests, list_calls, yielded, nRead,
                    nInvoked, nConstructRaised >>

\* main, lines 58-60: the quit test succeeds
QuitLoop ==
    /\ pc = "test"
    /\ IsQuit(user_input)
    /\ out' = Append(out, Printed("goodbye", <<>>))
    /\ pc' = "done"
    /\ UNCHANGED << script, GOOGLE_API_KEY, configured, user_input, response,
                    resp_obj, e, requests, uncaught, list_calls, yielded, nRead,
                    nInvoked, nConstructRaised >>

\* main, line 62: the quit test fails, chat_with_gemini(user_input) is entered
CallChat ==
    /\ pc = "test"
    /\ ~IsQuit(user_input)
    /\ nInvoked' = nInvoked + 1
    /\ e' = NoException
    /\ resp_obj' = NoResponse
    /\ pc' = "construct"
    /\ UNCHANGED << script, GOOGLE_API_KEY, configured, user_input, response,
                    out, requests, uncaught, list_calls, yielded, nRead,
                    nConstructRaised >>

\* chat_with_gemini, line 18: genai.GenerativeModel(...) returns or raises
ConstructModel ==
    /\ pc = "construct"
    /\ \/ /\ pc' = "generate"
          /\ UNCHANGED << e, nConstructRaised >>
       \/ /\ \E exc \in ConstructErrors : e' = exc
          /\ nConstructRaised' = nConstructRaised + 1
          /\ pc' = "except"
    /\ UNCHANGED << script, GOOGLE_API_KEY, configured, user_input, response,
                    resp_obj, out, requests, uncaught, list_calls, yielded,
                    nRead, nInvoked >>

\* chat_with_gemini, lines 21-47: the generate_content call is issued
GenerateContent ==
    /\ pc = "generate"
    /\ requests' = Append(requests, [line |-> user_input, call |-> Request(user_input)])
    /\ pc' = "inflight"
    /\ UNCHANGED << script, GOOGLE_API_KEY, configured, user_input, response,
                    resp_obj, e, out, uncaught, list_calls, yielded, nRead,
                    nInvoked, nConstructRaised >>

\* the call in flight returns a response object
GenerateReturns ==
    /\ pc = "inflight"
    /\ \E r \in Responses : resp_obj' = r
    /\ pc' = "text"
    /\ UNCHANGED << script, GOOGLE_API_KEY, configured, user_input, response, e,
                    out, requests, uncaught, list_calls, yielded, nRead,
                    nInvoked, nConstructRaised >>

\* the call in flight raises: an error of the service, or KeyboardInterrupt
\* when the user interrupts the blocked process
GenerateRaises ==
    /\ pc = "inflight"
    /\ \E exc \in GenerateErrors \cup {Interrupt("generate_content")} : e' = exc
    /\ pc' = "except"
    /\ UNCHANGED << script, GOOGLE_API_KEY, configured, user_input, response,
                    resp_obj, out, requests, uncaught, list_calls, yielded,
                    nRead, nInvoked, nConstructRaised >>

\* chat_with_gemini, line 48: return response.text; .text raises ValueError on
\* a blocked response
ResponseText ==
    /\ pc = "text"
    /\ IF resp_obj.blocked
       THEN /\ \E exc \in TextErrors : e' = exc
            /\ pc' = "except"
            /\ UNCHANGED response
       ELSE /\ response' = resp_obj.text
            /\ pc' = "print"
            /\ UNCHANGED e
    /\ UNCHANGED << script, GOOGLE_API_KEY, configured, user_input, resp_obj,
                    out, requests, uncaught, list_calls, yielded, nRead,
                    nInvoked, nConstructRaised >>

\* chat_with_gemini, lines 49-50: the except clause; an exception it does not
\* match leaves chat_with_gemini and main and ends the process
ExceptClause ==
    /\ pc = "except"
    /\ IF ExceptMatches(e.cls)
       THEN /\ response' = ErrorString(e)
            /\ pc' = "print"
            /\ UNCHANGED uncaught
       ELSE /\ uncaught' = e
            /\ pc' = "crashed"
            /\ UNCHANGED response
    /\ UNCHANGED << script, GOOGLE_API_KEY, configured, user_input, resp_obj, e,
                    out, requests, list_calls, yielded, nRead, nInvoked,
                    nConstructRaised >>

\* main, lines 63-64: the response block, then back to the top of the loop
PrintResponse ==
    /\ pc = "print"
    /\ out' = out \o GeminiBlock(response)
    /\ pc' = "input"
    /\ UNCHANGED << script, GOOGLE_API_KEY, configured, user_input, response,
                    resp_obj, e, requests, uncaught, list_calls, yielded, nRead,
                    nInvoked, nConstructRaised >>

\* ------------------------------------------------------------ list_models.py
\* the mutant of ModelBlock: the display-name line left out
ModelBlockNameOnly(d) == << Printed("Name", d.name), Separator >>

\* lines 16-18: the three lines printed for one descriptor
ModelBlock(d) ==
    << Printed("Name", d.name), Printed("Display Name", d.display_name), Separator >>

\* lines 13-14: the header
PrintHeader ==
    /\ pc = "header"
    /\ out' = out \o << Printed("Available Models:", <<>>), Separator >>
    /\ pc' = "list"
    /\ UNCHANGED << script, GOOGLE_API_KEY, configured, user_input, response,
                    resp_obj, e, requests, uncaught, list_calls, yielded, nRead,
                    nInvoked, nConstructRaised >>

\* line 15: genai.list_models() returns the lazy sequence, or raises; the
\* script has no try statement
ListModels ==
    /\ pc = "list"
    /\ list_calls' = list_calls + 1
    /\ \/ /\ pc' = "iterate"
          /\ UNCHANGED uncaught
       \/ /\ \E exc \in ListErrors : uncaught' = exc
          /\ pc' = "crashed"
    /\ UNCHANGED << script, GOOGLE_API_KEY, configured, user_input, response,
                    resp_obj, e, out, requests, yielded, nRead, nInvoked,
                    nConstructRaised >>

\* lines 15-18: the sequence yields a descriptor and the loop body prints it
NextModel ==
    /\ pc = "iterate"
    /\ Len(yielded) < MaxModels
    /\ \E d \in Descriptors :
          /\ yielded' = Append(yielded, d)
          /\ out' = out \o ModelBlock(d)
    /\ UNCHANGED << script, GOOGLE_API_KEY, configured, pc, user_input, response,
                    resp_obj, e, requests, uncaught, list_calls, nRead, nInvoked,
                    nConstructRaised >>

\* line 15: the sequence is exhausted, the script ends
StopIteration ==
    /\ pc = "iterate"
    /\ pc' = "done"
    /\ UNCHANGED << script, GOOGLE_API_KEY, configured, user_input, response,
                    resp_obj, e, out, requests, uncaught, list_calls, yielded,
                    nRead, nInvoked, nConstructRaised >>

\* line 15: fetching the next page of the lazy sequence raises
NextRaises ==
    /\ pc = "iterate"
    /\ \E exc \in ListErrors : uncaught' = [exc EXCEPT !.site = "next"]
    /\ pc' = "crashed"
    /\ UNCHANGED << script, GOOGLE_API_KEY, configured, user_input, response,
                    resp_obj, e, out, requests, list_calls, yielded, nRead,
                    nInvoked, nConstructRaised >>

\* ------------------------------------------------------------ specification
Next ==
    \/ CheckKey
    \/ Configure
    \/ Welcome
    \/ ReadInput
    \/ InputRaises
    \/ QuitLoop
    \/ CallChat
    \/ ConstructModel
    \/ GenerateContent
    \/ GenerateReturns
    \/ GenerateRaises
    \/ ResponseText
    \/ ExceptClause
    \/ PrintResponse
    \/ PrintHeader
    \/ ListModels
    \/ NextModel
    \/ StopIteration
    \/ NextRaises

Spec == Init /\ [][Next]_vars

TypeOK ==
    /\ script \in {"gemini_chat", "list_models"}
    /\ GOOGLE_API_KEY \in EnvValues
    /\ configured \in BOOLEAN
    /\ pc \in {"getenv", "configure", "main", "input", "test", "construct",
               "generate", "inflight", "text", "except", "print", "header",
               "list", "iterate", "done", "crashed"}
    /\ user_input \in Lines
    /\ resp_obj \in Responses \cup {NoResponse}
    /\ nRead \in 0..MaxInputs
    /\ nInvoked \in 0..nRead
    /\ nConstructRaised \in 0..nInvoked
    /\ list_calls \in 0..1
    /\ Len(yielded) <= MaxModels


\* ------------------------------------------------------------------- claims
\* the spellings of quit in any letter case
QuitSpellings ==
    { <<a, b, c, d>> : a \in {"q", "Q"}, b \in {"u", "U"},
                       c \in {"i", "I"}, d \in {"t", "T"} }

Goodbye == Printed("goodbye", <<>>)

\* the response blocks on standard output: a Gemini line directly followed by
\* the separator
ResponseBlocks(o) ==
    Cardinality({ i \in 1..(Len(o) - 1) :
                    o[i].kind = "gemini" /\ o[i + 1].kind = "separator" })

\* s starts with "Error: " and continues with msg
IsErrorOf(s, msg) ==
    /\ Len(s) >= 7
    /\ SubSeq(s, 1, 7) = <<"E", "r", "r", "o", "r", ":", " ">>
    /\ SubSeq(s, 8, Len(s)) = msg

\* an Exception raised by model construction, generate_content or .text
DownstreamFailure(x) ==
    /\ x.site \in {"GenerativeModel", "generate_content", "text"}
    /\ x.cls \in {"Exception", "GoogleAPIError", "ValueError"}

\* C1 as stated: whenever the chat loop prompts, it has issued one
\* generate_content call and printed one response block for every line read so
\* far (none of them was quit, or the loop would have ended)
C1_OneCallOneBlockPerLine ==
    (script = "gemini_chat" /\ pc = "input") =>
        /\ Len(requests) = nRead
        /\ ResponseBlocks(out) = nRead

\* C1 amended: whenever the chat loop prompts, every line read so far has had
\* exactly one chat_with_gemini invocation and exactly one response block, and
\* one generate_content call unless GenerativeModel(...) raised before the call
\* was reached; a caught failure leads to the print and the print to the prompt
C1_OneInvocationOneBlockPerLine ==
    /\ [](script = "gemini_chat" /\ pc = "input" =>
            /\ nInvoked = nRead
            /\ Len(requests) = nRead - nConstructRaised
            /\ ResponseBlocks(out) = nRead
            /\ Len(out) = 2 + 2 * nRead)
    /\ [][ /\ (pc = "except" /\ DownstreamFailure(e)) => pc' = "print"
           /\ pc = "print" => (pc' = "input" /\ Len(out') = Len(out) + 2)
         ]_vars

\* C1 witness: the loop prompts again after an iteration in which construction
\* raised (no call issued) and one in which generate_content raised
C1_Witness ==
    /\ script = "gemini_chat" /\ pc = "input" /\ nRead >= 2
    /\ nConstructRaised = 1 /\ Len(requests) = nRead - 1
    /\ \E i \in 1..Len(out) : IsErrorOf(out[i].text, <<"4", "2", "9">>)

\* C2: a line spelling quit in any letter case ends the loop with the farewell
\* and without a downstream call for it, and after the loop has ended nothing
\* more is read or sent
C2_QuitEndsLoop ==
    /\ [][ (pc = "test" /\ user_input \in QuitSpellings) =>
              /\ pc' = "done"
              /\ out' = Append(out, Goodbye)
              /\ requests' = requests
              /\ nInvoked' = nInvoked ]_vars
    /\ []((script = "gemini_chat" /\ pc = "done") =>
              /\ ~ENABLED Next
              /\ user_input \in QuitSpellings
              /\ out[Len(out)] = Goodbye
              /\ nInvoked = nRead - 1)

\* C2 witness: QUIT in capitals ended the loop after an earlier exchange
C2_Witness ==
    /\ script = "gemini_chat" /\ pc = "done"
    /\ user_input = <<"Q", "U", "I", "T">>
    /\ nRead = 2 /\ Len(requests) = 1

\* C3 as stated: a line that equals quit after trimming and lowering ends the
\* loop with the farewell
C3_TrimmedQuitEndsLoop ==
    [][ (pc = "test" /\ lower(strip(user_input)) = Quit) =>
            (pc' = "done" /\ out' = Append(out, Goodbye)) ]_vars

\* C3 amended: the quit test is applied to the line as read, ignoring letter
\* case only; a line with leading or trailing whitespace around quit does not
\* end the loop and is forwarded unchanged to the request wrapper
C3_UntrimmedQuitTest ==
    [][ pc = "test" =>
          /\ (pc' = "done") <=> (user_input \in QuitSpellings)
          /\ (user_input \notin QuitSpellings) =>
                (pc' = "construct" /\ user_input' = user_input /\ out' = out)
      ]_vars

\* C3 witness: " quit " was sent to generate_content as the prompt
C3_Witness ==
    \E i \in 1..Len(requests) :
        /\ requests[i].line = <<" ", "q", "u", "i", "t", " ">>
        /\ requests[i].call.contents = <<" ", "q", "u", "i", "t", " ">>

\* C4: when chat_with_gemini returns, its result is "Error: " followed by the
\* message of the exception raised in the try block, or else the response
\* text; and the process never ends with an Exception of the downstream call
C4_FailuresBecomeErrorStrings ==
    script = "gemini_chat" =>
        /\ pc = "print" =>
              IF e # NoException
              THEN DownstreamFailure(e) /\ IsErrorOf(response, e.msg)
              ELSE response = resp_obj.text /\ ~resp_obj.blocked
        /\ pc = "crashed" => ~DownstreamFailure(uncaught)

\* C4 witness: the .text of a blocked response raised and chat_with_gemini
\* returned the error string
C4_Witness ==
    /\ script = "gemini_chat" /\ pc = "print"
    /\ e.site = "text" /\ e.cls = "ValueError"
    /\ response = <<"E", "r", "r", "o", "r", ":", " ", "b", "l", "k">>

\* C5: with GOOGLE_API_KEY missing, either script ends in ValueError at startup,
\* before genai.configure, any generate_content or list_models call, any prompt
\* and any output
C5_MissingKeyFailsFirst ==
    (GOOGLE_API_KEY.isNone /\ pc # "getenv") =>
        /\ pc = "crashed"
        /\ uncaught.cls = "ValueError" /\ uncaught.site = "startup"
        /\ ~configured
        /\ requests = <<>> /\ list_calls = 0 /\ yielded = <<>>
        /\ nRead = 0 /\ nInvoked = 0 /\ out = <<>>

\* C5 witness: the model lister has failed at startup for the missing key
C5_Witness ==
    /\ script = "list_models" /\ GOOGLE_API_KEY.isNone
    /\ pc = "crashed" /\ uncaught.cls = "ValueError"

\* C6 as stated: the chat driver never ends with an uncaught KeyboardInterrupt
C6_InterruptExitsCleanly ==
    ~(script = "gemini_chat" /\ pc = "crashed" /\ uncaught.cls = "KeyboardInterrupt")

\* C6 amended: the chat driver exits normally only on quit; a KeyboardInterrupt
\* raised while generate_content is in flight passes the except clause, and one
\* raised while input() waits is not in any try, so the process ends with the
\* uncaught exception and without the farewell
C6_InterruptIsUncaught ==
    [][ /\ (pc = "except" /\ e.cls = "KeyboardInterrupt") =>
              (pc' = "crashed" /\ uncaught' = e /\ out' = out)
        /\ (pc = "input" /\ nRead' = nRead) =>
              /\ pc' = "crashed" /\ out' = out
              /\ uncaught'.cls \in {"KeyboardInterrupt", "EOFError"}
        /\ (script = "gemini_chat" /\ pc' = "done") =>
              (pc = "test" /\ user_input \in QuitSpellings)
      ]_vars

\* C6 witness: an interrupt during generate_content ended the process
C6_Witness ==
    /\ script = "gemini_chat" /\ pc = "crashed"
    /\ uncaught = [cls |-> "KeyboardInterrupt", msg |-> <<>>,
                   site |-> "generate_content"]
    /\ Len(requests) = nRead /\ nRead >= 1

\* the lines of the listing for a sequence of descriptors
RECURSIVE ListingOf(_)
ListingOf(ds) ==
    IF ds = <<>> THEN <<>>
    ELSE << Printed("Name", Head(ds).name),
            Printed("Display Name", Head(ds).display_name),
            Printed("separator", <<>>) >> \o ListingOf(Tail(ds))

\* C7: after the header, standard output of the model lister is one block
\* (name, display name, separator) per descriptor yielded so far, in the order
\* yielded, and the script ends when the sequence is exhausted
C7_OneBlockPerDescriptorInOrder ==
    script = "list_models" =>
        /\ Len(out) >= 2 => SubSeq(out, 3, Len(out)) = ListingOf(yielded)
        /\ Len(out) < 2 => yielded = <<>>
        /\ pc = "done" => (~ENABLED Next /\ Len(out) = 2 + 3 * Len(yielded))

\* C7 witness: the listing ended after three descriptors, unsorted and with a
\* repetition
C7_Witness ==
    /\ script = "list_models" /\ pc = "done" /\ Len(yielded) >= 3
    /\ yielded[1].display_name = <<"B">>
    /\ yielded[2].display_name = <<"A">>
    /\ yielded[3].display_name = <<"B">>

\* C8: every generate_content call carries temperature 0.7, top_p 0.95,
\* top_k 40, max_output_tokens 2048 and BLOCK_MEDIUM_AND_ABOVE for the four
\* harm categories
C8_FixedParameters ==
    \A i \in 1..Len(requests) :
        LET c == requests[i].call IN
        /\ c.generation_config.temperature = "0.7"
        /\ c.generation_config.top_p = "0.95"
        /\ c.generation_config.top_k = 40
        /\ c.generation_config.max_output_tokens = 2048
        /\ Len(c.safety_settings) = 4
        /\ { s.category : s \in { c.safety_settings[k] : k \in 1..4 } } =
              { "HARM_CATEGORY_HARASSMENT", "HARM_CATEGORY_HATE_SPEECH",
                "HARM_CATEGORY_SEXUALLY_EXPLICIT", "HARM_CATEGORY_DANGEROUS_CONTENT" }
        /\ \A k \in 1..4 : c.safety_settings[k].threshold = "BLOCK_MEDIUM_AND_ABOVE"

\* C8 witness: two calls with different prompts, the second after a failure
C8_Witness ==
    /\ Len(requests) >= 2
    /\ requests[1].call.contents # requests[2].call.contents
    /\ \E i \in 1..Len(out) : IsErrorOf(out[i].text, <<"4", "2", "9">>)

\* C9: two iterations with the same input line send the same request, whatever
\* was read and answered before them
C9_RequestDependsOnLineOnly ==
    \A i, j \in 1..Len(requests) :
        requests[i].line = requests[j].line =>
            /\ requests[i].call = requests[j].call
            /\ requests[i].call.contents = requests[i].line

\* C9 witness: the same line was sent twice, the second time after a different
\* line and two answers
C9_Witness ==
    /\ Len(requests) = 3
    /\ requests[1].line # requests[2].line
    /\ requests[2].line = requests[3].line
    /\ Len(out) >= 6 /\ out[3].text # out[5].text

\* C10 as stated: the model lister never ends with an uncaught failure of
\* list_models or of the iteration
C10_ListerHandlesFailure ==
    ~(script = "list_models" /\ pc = "crashed"
      /\ uncaught.site \in {"list_models", "next"})

\* C10 amended: only the chat driver wraps its call: there no Exception of the
\* downstream call ends the process; the model lister has no handler, and a
\* failure of list_models or of the iteration ends it at once, uncaught
C10_OnlyChatHandlesFailure ==
    /\ []((script = "gemini_chat" /\ pc = "crashed") => ~DownstreamFailure(uncaught))
    /\ [][ (script = "gemini_chat" /\ pc = "except" /\ DownstreamFailure(e)) =>
              (pc' = "print" /\ uncaught' = NoException) ]_vars
    /\ [][ (script = "list_models" /\ uncaught' # uncaught /\ list_calls' = 1) =>
              /\ pc' = "crashed" /\ out' = out
              /\ uncaught'.site \in {"list_models", "next"} ]_vars

\* C10 witness: the iteration failed after one descriptor and ended the lister
C10_Witness ==
    /\ script = "list_models" /\ pc = "crashed"
    /\ uncaught.site = "next" /\ Len(yielded) = 1 /\ Len(out) = 5

====
